---- MODULE Spec2Model ----
(***************************************************************************)
(* Train detector firmware (darekbx/arduino-train-detector).               *)
(*                                                                         *)
(* Two builds of the sketch are modelled side by side:                     *)
(*   "ino"  : src/traindetector.ino   (loop counted in 50 ms ticks,        *)
(*            `long secondsCounter`, setup() does not write the counter)   *)
(*   "digi" : src/unnamed/part_000    (loop driven by millis(),            *)
(*            `unsigned long secondsCounter`, setup() writes 0 back)       *)
(*                                                                         *)
(* 32-bit values are kept as their two's-complement bit pattern, an        *)
(* integer in -2^31 .. 2^31-1; an `unsigned long` is compared through      *)
(* its pattern (ULess).  `int` is the 16-bit int of the AVR targets.       *)
(*                                                                         *)
(* Power can be lost between any two EEPROM.write calls: every handler is  *)
(* one action that yields the list of byte writes it issues, and the       *)
(* power-loss actions apply a proper prefix of that list.                  *)
(*                                                                         *)
(* These specifications share the state:                                   *)
(*   Spec      : power-on, setup(), loop() and power losses;               *)
(*   FreshSpec : Spec from an EEPROM cleared to 0x00 only;                 *)
(*   LiveSpec  : one Normal-mode run without power loss, with fairness;    *)
(*   CodecSpec : writeLong / readLong applied to chosen int32 values;      *)
(*   DumpSpec  : a read-only start, with its memory dump, on an EEPROM of  *)
(*               DumpSlots slots holding any mix of DumpValues.            *)
(***************************************************************************)
EXTENDS Integers, Sequences, FiniteSets, TLC

(* ------------------------------ bounds -------------------------------- *)

\* EEPROM.length() of the modelled board (512 on the ATtiny85).
memorySize == 16

\* (second / threadDelay) * 1 = 20 loop ticks per second in the "ino" build,
\* scaled down.
counterIncreaseRatio == 2

\* 1200 loop ticks ("ino") or 30 seconds ("digi") in the source, scaled down.
eventsDelay == 2

\* Ticking stops in the model once the counter reaches this value.
MaxSeconds == 3

\* Number of power losses explored in one behaviour.
MaxRestarts == 2

\* writeLong calls explored in one behaviour of the codec specification.
MaxWrites == 1

\* Consecutive passes that find the latch clear and the sensor idle, in the
\* specification with fairness.
MaxIdle == 1

\* Number of 4-byte slots of the EEPROM the memory dump is run on: the dump
\* can only be cut short when there are more than four slots.
DumpSlots == 6

(* ------------------------- program constants -------------------------- *)

secondsCounterAddress == 0
eventIndexAddress == 4
eventAddressStep == 4
initialEventAddress == 8

Variants == {"ino", "digi"}

\* What an EEPROM access outside 0 .. length-1 does is not defined by the
\* sketch: the AVR address register wraps, other cores ignore the access.
OorModes == {"wrap", "ignore"}

(* ------------------------------- state -------------------------------- *)

VARIABLES
  variant,          \* which build runs
  oorMode,          \* what the board does with an out-of-range address
  eeprom,           \* EEPROM contents, survives power loss
  pc,               \* "off": before setup(), "run": inside loop()
  secondsCounter,
  timer,
  eventAddress,
  isReadOnly,
  hasEvent,
  eventTime,
  \* history variables (observations only, never read by the program)
  lastOp,           \* the operation that produced this state
  lastWrites,       \* addresses passed to EEPROM.write by that operation
  ticked,           \* that operation incremented secondsCounter
  appended,         \* that operation appended an event
  tickReadback,     \* readLong(0) right after the tick's writeLong
  counterAtInit,    \* secondsCounter when setup() returned
  ticksInRun,       \* ticks since setup() returned
  fullLoops,        \* loop() calls of this run that found the memory full
  lastGap,          \* debounce ticks between the last two pulses of this run
  sincePulse,       \* debounce ticks since the last pulse of this run
  records,          \* <<address, value>> of every completed append, in order
  prevCounter,      \* secondsCounter before that operation
  persisted,        \* counter values a completed writeLong(0, ..) persisted
  torn,             \* the append a power loss cut between its two writeLongs
  powerOn,          \* EEPROM contents when setup() started
  restarts,
  timerCalls,       \* handleTimer() calls since setup() returned
  firstSample,      \* what the first triggered sensor sample of this run did
  cutCooldown,      \* the last power loss came while hasEvent was set
  dumped,           \* <<address, value>> lines printed by the memory dump
  codec,            \* the last writeLong / readLong of the codec specification
  waited            \* passes in a row with the latch clear and no event

vars == << variant, oorMode, eeprom, pc, secondsCounter, timer, eventAddress,
           isReadOnly, hasEvent, eventTime, lastOp, lastWrites, ticked,
           appended, tickReadback, counterAtInit, ticksInRun, fullLoops,
           lastGap, sincePulse, records, prevCounter, persisted, torn,
           powerOn, restarts, timerCalls, firstSample, cutCooldown, dumped,
           codec, waited >>

NoTorn == [old |-> 0, new |-> 0, val |-> 0]

NoCodec == [op |-> "none", address |-> 0, number |-> 0, result |-> 0,
            writes |-> 0]

(* --------------------------- integer widths --------------------------- *)

INT32_MAX == 2147483647
INT32_MIN == -2147483647 - 1

\* x + 1 in a 32-bit register.
Inc32(x) == IF x = INT32_MAX THEN INT32_MIN ELSE x + 1

\* Conversion of a long to the 16-bit int eventAddress.
ToInt16(x) == ((x + 32768) % 65536) - 32768

\* a < b for two unsigned long values given by their bit patterns.
ULess(a, b) == IF (a >= 0) = (b >= 0) THEN a < b ELSE a >= 0

\* Is secondsCounter a signed long in this build?
CounterSigned(v) == v = "ino"

\* a < b in the type secondsCounter has in build v.
CounterLess(v, a, b) == IF CounterSigned(v) THEN a < b ELSE ULess(a, b)

\* `secondsCounter <= 0` in build v.
CounterLeqZero(v, c) == IF CounterSigned(v) THEN c <= 0 ELSE c = 0

(* ------------------------------ storage ------------------------------- *)

InRange(a) == a >= 0 /\ a < memorySize

\* EEPROM.length() of the storage mem.
EEPROMlength(mem) == Cardinality(DOMAIN mem)

\* EEPROM.read(address)
EEPROMread(mode, mem, a) ==
  IF a \in DOMAIN mem THEN mem[a]
  ELSE IF mode = "wrap" THEN mem[a % EEPROMlength(mem)]
  ELSE 0

\* EEPROM.write(a, _) stores into byte cell of mem: an address outside the
\* EEPROM wraps around or reaches nothing.
Reaches(mode, mem, a, cell) ==
  IF a \in DOMAIN mem THEN cell = a
  ELSE mode = "wrap" /\ cell = a % EEPROMlength(mem)

\* EEPROM.write(address, value)
EEPROMwrite(mode, mem, a, b) ==
  [cell \in DOMAIN mem |-> IF Reaches(mode, mem, a, cell) THEN b ELSE mem[cell]]

\* A writeLong that stores the least significant byte first.
writeLongLowFirst(address, number) ==
  << << address,     number % 256 >>,
     << address + 1, (number \div 256) % 256 >>,
     << address + 2, (number \div 65536) % 256 >>,
     << address + 3, (number \div 16777216) % 256 >> >>

\* The four EEPROM.write calls of writeLong(address, number), in order.
writeLong(address, number) ==
  << << address,     (number \div 16777216) % 256 >>,
     << address + 1, (number \div 65536) % 256 >>,
     << address + 2, (number \div 256) % 256 >>,
     << address + 3, number % 256 >> >>

\* The EEPROM after the EEPROM.write calls ws, made in order: each byte holds
\* the value of the last call that reached it.
ApplyWrites(mode, mem, ws) ==
  [cell \in DOMAIN mem |->
     LET hits == {i \in 1 .. Len(ws) : Reaches(mode, mem, ws[i][1], cell)}
     IN  IF hits = {} THEN mem[cell]
         ELSE ws[CHOOSE i \in hits : \A j \in hits : j <= i][2]]

\* A readLong that drops the top bit of the first byte.
readLongNoSign(mode, mem, address) ==
  (EEPROMread(mode, mem, address) % 128) * 16777216
    + EEPROMread(mode, mem, address + 1) * 65536
    + EEPROMread(mode, mem, address + 2) * 256
    + EEPROMread(mode, mem, address + 3)

\* readLong(address): the sum is formed in a 32-bit long, so a first byte
\* of 128 or more gives a negative value.
readLong(mode, mem, address) ==
  LET b0 == EEPROMread(mode, mem, address)
      b1 == EEPROMread(mode, mem, address + 1)
      b2 == EEPROMread(mode, mem, address + 2)
      b3 == EEPROMread(mode, mem, address + 3)
  IN  (IF b0 >= 128 THEN b0 - 256 ELSE b0) * 16777216 + b1 * 65536 + b2 * 256 + b3

Addresses(ws) == [i \in 1 .. Len(ws) |-> ws[i][1]]

Min(a, b) == IF a < b THEN a ELSE b

GapCap == eventsDelay + 2

SubSeqFirst(ws, k) == SubSeq(ws, 1, k)

(* ------------------------------ setup() ------------------------------- *)

\* The pointer recovery of setup(): the stored value is written back before
\* eventAddress is replaced by eventIndexAddress.
initializeEventAddress(mode, mem) ==
  LET stored == ToInt16(readLong(mode, mem, eventIndexAddress))
  IN  IF stored <= 0
        THEN [eventAddress |-> eventIndexAddress,
              writes |-> writeLong(eventIndexAddress, stored)]
        ELSE [eventAddress |-> stored, writes |-> << >>]

\* Does setup() of build v write the reset counter back?
PersistsZero(v) == v = "digi"

\* The counter recovery of setup().
initializeSecondsCounter(v, mode, mem) ==
  LET stored == readLong(mode, mem, secondsCounterAddress)
  IN  IF CounterLeqZero(v, stored)
        THEN [secondsCounter |-> 0,
              writes |-> IF PersistsZero(v)
                           THEN writeLong(secondsCounterAddress, 0)
                           ELSE << >>]
        ELSE [secondsCounter |-> stored, writes |-> << >>]

\* setup() as a whole: recovered values and the byte writes it issues.
setup(v, mode, mem) ==
  LET ea == initializeEventAddress(mode, mem)
      m1 == ApplyWrites(mode, mem, ea.writes)
      sc == initializeSecondsCounter(v, mode, m1)
  IN  [eventAddress |-> ea.eventAddress,
       secondsCounter |-> sc.secondsCounter,
       writes |-> ea.writes \o sc.writes,
       counterWritten |-> sc.writes # << >>]

\* Is the serial port compiled in for build v?
serialEnabled(v) == v = "ino"

\* A dump that is cut at the first slot that reads 0.
DumpCutAtFirstZero(zeroCount) == zeroCount > 0

\* `zeroCount > 4`: the dump prints "..." and stops.
DumpCut(zeroCount) == zeroCount > 4

\* The for loop of printMemoryStatus() from address i on: the lines printed.
RECURSIVE printMemoryStatusFrom(_, _, _, _)
printMemoryStatusFrom(mode, mem, i, zeroCount) ==
  IF i >= EEPROMlength(mem) THEN << >>
  ELSE LET value == readLong(mode, mem, i)
           zc    == IF value = 0 THEN zeroCount + 1 ELSE zeroCount - 1
       IN  IF DumpCut(zc) THEN << << i, value >> >>
           ELSE << << i, value >> >> \o printMemoryStatusFrom(mode, mem, i + 4, zc)

printMemoryStatus(mode, mem) == printMemoryStatusFrom(mode, mem, 0, 0)

(* ------------------------------- loop() ------------------------------- *)

\* A loop() without the read-only early return.
ModeSwitchIgnored(ro, ea) ==
  IF ea > memorySize THEN "MemoryFull" ELSE "Normal"

\* A full test that lets one more append through.
isMemoryFullLate(ea) == ea > memorySize + eventAddressStep

isMemoryFull(ea) == ea > memorySize

\* The two early returns of loop(): which mode the pass runs in.
Mode(ro, ea) ==
  IF ro THEN "ReadOnly"
  ELSE IF isMemoryFull(ea) THEN "MemoryFull"
  ELSE "Normal"

\* Which pin level counts as "train passing" in build v.
SensorTriggered(v, pin) == IF v = "ino" THEN pin = "HIGH" ELSE pin = "LOW"

\* An append that persists the index before the payload.
appendEventPointerFirst(ea, sc) ==
  LET new == ToInt16(ea + eventAddressStep)
  IN  [eventAddress |-> new,
       writes |-> writeLong(eventIndexAddress, new) \o writeLong(new, sc)]

\* The append inside handleSensor(): payload first, index second.
appendEvent(ea, sc) ==
  LET new == ToInt16(ea + eventAddressStep)
  IN  [eventAddress |-> new,
       writes |-> writeLong(new, sc) \o writeLong(eventIndexAddress, new)]

\* A latch that is released on the first debounce tick.
CooldownOverAtOnce(et) == et > 0

\* `eventTime > eventsDelay`: the latch is released.
CooldownOver(et) == et > eventsDelay

\* A debounce block that counts every tick twice.
debounceCountsTwice(he, et) ==
  IF he
    THEN [hasEvent |-> ~CooldownOver(et + 2), eventTime |-> et + 2]
    ELSE [hasEvent |-> he, eventTime |-> et]

\* The `if (hasEvent) { eventTime++; ... }` block.
debounce(he, et) ==
  IF he
    THEN [hasEvent |-> ~CooldownOver(et + 1), eventTime |-> et + 1]
    ELSE [hasEvent |-> he, eventTime |-> et]

\* A guard that never lets the append run.
FiresNever(v, he, pin) == FALSE

\* The guard of the append in handleSensor().
Fires(v, he, pin) == ~he /\ SensorTriggered(v, pin)

\* handleSensor() of build v; only the "ino" build runs the debounce block
\* in it.
handleSensor(v, ea, he, et, sc, pin) ==
  LET fire == Fires(v, he, pin)
      app  == appendEvent(ea, sc)
      he1  == IF fire THEN TRUE ELSE he
      et1  == IF fire THEN 0 ELSE et
      db   == IF v = "ino" THEN debounce(he1, et1)
              ELSE [hasEvent |-> he1, eventTime |-> et1]
  IN  [eventAddress |-> IF fire THEN app.eventAddress ELSE ea,
       hasEvent |-> db.hasEvent,
       eventTime |-> db.eventTime,
       fired |-> fire,
       triggered |-> SensorTriggered(v, pin),
       writes |-> IF fire THEN app.writes ELSE << >>]

\* A tick that writes the counter before incrementing it.
increaseSecondsStale(sc) ==
  [secondsCounter |-> Inc32(sc),
   writes |-> writeLong(secondsCounterAddress, sc)]

\* increaseSeconds(): increment, then write through.
increaseSeconds(sc) ==
  [secondsCounter |-> Inc32(sc),
   writes |-> writeLong(secondsCounterAddress, Inc32(sc))]

\* A handleTimer() that compares with > instead of >=.
handleTimerLate(t, sc) ==
  IF t + 1 > counterIncreaseRatio
    THEN [timer |-> 0, ticked |-> TRUE,
          secondsCounter |-> increaseSeconds(sc).secondsCounter,
          writes |-> increaseSeconds(sc).writes]
    ELSE [timer |-> t + 1, ticked |-> FALSE, secondsCounter |-> sc,
          writes |-> << >>]

\* handleTimer() of the "ino" build.
handleTimer(t, sc) ==
  IF t + 1 >= counterIncreaseRatio
    THEN [timer |-> 0, ticked |-> TRUE,
          secondsCounter |-> increaseSeconds(sc).secondsCounter,
          writes |-> increaseSeconds(sc).writes]
    ELSE [timer |-> t + 1, ticked |-> FALSE, secondsCounter |-> sc,
          writes |-> << >>]

\* One Normal-mode pass of loop() in the "ino" build:
\* handleSensor(); handleTimer();
loopIno(ea, he, et, sc, t, pin) ==
  LET hs == handleSensor("ino", ea, he, et, sc, pin)
      ht == handleTimer(t, sc)
  IN  [eventAddress |-> hs.eventAddress, hasEvent |-> hs.hasEvent,
       eventTime |-> hs.eventTime, secondsCounter |-> ht.secondsCounter,
       timer |-> ht.timer, fired |-> hs.fired, ticked |-> ht.ticked,
       triggered |-> hs.triggered, timerCalled |-> TRUE,
       stamp |-> sc,
       writes |-> hs.writes \o ht.writes,
       appendAt |-> 0, tickAt |-> Len(hs.writes)]

\* One Normal-mode pass of loop() in the "digi" build: the one-second
\* branch, then the sensor branch; millis() decides which of them run.
loopDigi(ea, he, et, sc, t, pin, secondElapsed, sensorElapsed) ==
  LET inc == IF secondElapsed THEN increaseSeconds(sc)
             ELSE [secondsCounter |-> sc, writes |-> << >>]
      db  == IF secondElapsed THEN debounce(he, et)
             ELSE [hasEvent |-> he, eventTime |-> et]
      hs  == IF sensorElapsed
               THEN handleSensor("digi", ea, db.hasEvent, db.eventTime,
                                 inc.secondsCounter, pin)
               ELSE [eventAddress |-> ea, hasEvent |-> db.hasEvent,
                     eventTime |-> db.eventTime, fired |-> FALSE,
                     triggered |-> FALSE, writes |-> << >>]
  IN  [eventAddress |-> hs.eventAddress, hasEvent |-> hs.hasEvent,
       eventTime |-> hs.eventTime, secondsCounter |-> inc.secondsCounter,
       timer |-> t, fired |-> hs.fired, ticked |-> secondElapsed,
       triggered |-> hs.triggered, timerCalled |-> FALSE,
       stamp |-> inc.secondsCounter,
       writes |-> inc.writes \o hs.writes,
       appendAt |-> Len(inc.writes), tickAt |-> 0]

\* One Normal-mode pass of loop() in build v.
loopBody(v, ea, he, et, sc, t, pin, secondElapsed, sensorElapsed) ==
  IF v = "ino" THEN loopIno(ea, he, et, sc, t, pin)
  ELSE loopDigi(ea, he, et, sc, t, pin, secondElapsed, sensorElapsed)

(* ---------------------------- the machine ----------------------------- *)

Erased(b) == [a \in 0 .. memorySize - 1 |-> b]

\* The globals at power-on hold their initialisers.
PowerOnGlobals ==
  /\ variant \in Variants
  /\ oorMode \in OorModes
  /\ pc = "off"
  /\ secondsCounter = 0
  /\ timer = 0
  /\ eventAddress = initialEventAddress
  /\ isReadOnly = FALSE
  /\ hasEvent = FALSE
  /\ eventTime = 0
  /\ lastOp = "poweron"
  /\ lastWrites = << >>
  /\ ticked = FALSE
  /\ appended = FALSE
  /\ tickReadback = 0
  /\ counterAtInit = 0
  /\ ticksInRun = 0
  /\ fullLoops = 0
  /\ lastGap = GapCap
  /\ sincePulse = GapCap
  /\ records = << >>
  /\ prevCounter = 0
  /\ persisted = {}
  /\ torn = NoTorn
  /\ powerOn = eeprom
  /\ restarts = 0
  /\ timerCalls = 0
  /\ firstSample = "none"
  /\ cutCooldown = FALSE
  /\ dumped = << >>
  /\ codec = NoCodec
  /\ waited = 0

\* Power-on of a board whose EEPROM is cleared (0x00, clearMemory) or
\* factory-erased (0xFF).
Init ==
  /\ eeprom \in {Erased(0), Erased(255)}
  /\ PowerOnGlobals

\* setup() runs to its end; switchHigh is digitalRead(readOnlySwitch) == HIGH.
\* In read-only mode a build with the serial port dumps the memory.
Setup(switchHigh) ==
  /\ pc = "off"
  /\ \E r \in {setup(variant, oorMode, eeprom)} :
         /\ eeprom' = ApplyWrites(oorMode, eeprom, r.writes)
         /\ dumped' = IF switchHigh /\ serialEnabled(variant)
                        THEN printMemoryStatus(oorMode,
                               ApplyWrites(oorMode, eeprom, r.writes))
                        ELSE << >>
         /\ secondsCounter' = r.secondsCounter
         /\ eventAddress' = r.eventAddress
         /\ lastWrites' = Addresses(r.writes)
         /\ counterAtInit' = r.secondsCounter
         /\ prevCounter' = r.secondsCounter
         /\ persisted' = IF r.counterWritten THEN persisted \cup {0} ELSE persisted
  /\ isReadOnly' = switchHigh
  /\ pc' = "run"
  /\ lastOp' = "setup"
  /\ powerOn' = eeprom
  /\ ticksInRun' = 0
  /\ UNCHANGED << variant, oorMode, timer, hasEvent, eventTime, ticked,
                  appended, tickReadback, fullLoops, lastGap, sincePulse,
                  records, torn, restarts, timerCalls, firstSample,
                  cutCooldown, codec, waited >>

\* A debounce state that survives the reset.
DebounceKept(he, et) == [hasEvent |-> he, eventTime |-> et]

\* The debounce state after a reset: the initialisers, nothing is read
\* back from the EEPROM.
DebounceAfterReset(he, et) == [hasEvent |-> FALSE, eventTime |-> 0]

\* The globals after a reset, and the history of the run that ended.
Reset ==
  /\ pc' = "off"
  /\ secondsCounter' = 0
  /\ timer' = 0
  /\ eventAddress' = initialEventAddress
  /\ isReadOnly' = FALSE
  /\ hasEvent' = DebounceAfterReset(hasEvent, eventTime).hasEvent
  /\ eventTime' = DebounceAfterReset(hasEvent, eventTime).eventTime
  /\ lastOp' = "powerloss"
  /\ ticked' = FALSE
  /\ appended' = FALSE
  /\ tickReadback' = 0
  /\ counterAtInit' = 0
  /\ ticksInRun' = 0
  /\ fullLoops' = 0
  /\ lastGap' = GapCap
  /\ sincePulse' = GapCap
  /\ prevCounter' = 0
  /\ powerOn' = powerOn
  /\ restarts' = restarts + 1
  /\ timerCalls' = 0
  /\ firstSample' = "none"
  /\ cutCooldown' = hasEvent
  /\ dumped' = << >>
  /\ UNCHANGED << variant, oorMode, codec, waited >>

\* Power is lost inside setup(), after k of its byte writes.
PowerLossInSetup(k) ==
  /\ pc = "off"
  /\ restarts < MaxRestarts
  /\ LET r == setup(variant, oorMode, eeprom)
     IN  /\ k \in 1 .. Len(r.writes) - 1
         /\ eeprom' = ApplyWrites(oorMode, eeprom, SubSeqFirst(r.writes, k))
         /\ lastWrites' = Addresses(SubSeqFirst(r.writes, k))
  /\ Reset
  /\ UNCHANGED << records, persisted, torn >>

\* loop() in ReadOnly mode: delay(hour) and return.
LoopReadOnly ==
  /\ pc = "run"
  /\ Mode(isReadOnly, eventAddress) = "ReadOnly"
  /\ lastOp' = "readonly"
  /\ lastWrites' = << >>
  /\ ticked' = FALSE
  /\ appended' = FALSE
  /\ prevCounter' = secondsCounter
  /\ torn' = NoTorn
  /\ UNCHANGED << variant, oorMode, eeprom, pc, secondsCounter, timer,
                  eventAddress, isReadOnly, hasEvent, eventTime, tickReadback,
                  counterAtInit, ticksInRun, fullLoops, lastGap, sincePulse,
                  records, persisted, powerOn, restarts, timerCalls,
                  firstSample, cutCooldown, dumped, codec, waited >>

\* loop() with the memory full: delay(hour) and return.
LoopMemoryFull ==
  /\ pc = "run"
  /\ Mode(isReadOnly, eventAddress) = "MemoryFull"
  /\ lastOp' = "full"
  /\ lastWrites' = << >>
  /\ ticked' = FALSE
  /\ appended' = FALSE
  /\ prevCounter' = secondsCounter
  /\ fullLoops' = Min(fullLoops + 1, 2)
  /\ torn' = NoTorn
  /\ UNCHANGED << variant, oorMode, eeprom, pc, secondsCounter, timer,
                  eventAddress, isReadOnly, hasEvent, eventTime, tickReadback,
                  counterAtInit, ticksInRun, lastGap, sincePulse,
                  records, persisted, powerOn, restarts, timerCalls,
                  firstSample, cutCooldown, dumped, codec, waited >>

\* The millis() inputs of a pass: only the "digi" build reads them.
Elapsed == IF variant = "digi" THEN BOOLEAN ELSE {FALSE}

\* The model stops ticking at MaxSeconds.
MayRun(r) == r.ticked => secondsCounter < MaxSeconds

\* Debounce ticks are counted up to GapCap, which also stands for "no pulse
\* in this run yet".
Bump(n) == Min(n + 1, GapCap)

\* Debounce ticks since the last pulse, after a pass r: in the "ino" build
\* the debounce block follows the pulse in the same pass, in the "digi"
\* build it precedes it.
NextSincePulse(r) ==
  IF variant = "ino"
    THEN IF r.fired THEN 1 ELSE Bump(sincePulse)
    ELSE IF r.fired THEN 0
         ELSE IF r.ticked THEN Bump(sincePulse) ELSE sincePulse

NextLastGap(r) ==
  IF ~r.fired THEN lastGap
  ELSE IF variant = "ino" THEN sincePulse
  ELSE IF r.ticked THEN Bump(sincePulse) ELSE sincePulse

\* The effect of a Normal-mode pass r that runs to its end.
NormalPass(r) ==
  /\ eeprom' = ApplyWrites(oorMode, eeprom, r.writes)
  /\ secondsCounter' = r.secondsCounter
  /\ timer' = r.timer
  /\ eventAddress' = r.eventAddress
  /\ hasEvent' = r.hasEvent
  /\ eventTime' = r.eventTime
  /\ lastWrites' = Addresses(r.writes)
  /\ ticked' = r.ticked
  /\ appended' = r.fired
  /\ \E mem \in {IF r.ticked
                    THEN ApplyWrites(oorMode, eeprom,
                                     SubSeqFirst(r.writes, r.tickAt + 4))
                    ELSE eeprom} :
       tickReadback' = IF r.ticked
                         THEN readLong(oorMode, mem, secondsCounterAddress)
                         ELSE tickReadback
  /\ ticksInRun' = IF r.ticked THEN ticksInRun + 1 ELSE ticksInRun
  /\ sincePulse' = NextSincePulse(r)
  /\ lastGap' = NextLastGap(r)
  /\ records' = IF r.fired
                  THEN Append(records, << r.eventAddress, r.stamp >>)
                  ELSE records
  /\ persisted' = IF r.ticked THEN persisted \cup {r.secondsCounter}
                  ELSE persisted
  /\ timerCalls' = IF r.timerCalled THEN timerCalls + 1 ELSE timerCalls
  /\ firstSample' = IF firstSample = "none" /\ r.triggered
                      THEN IF r.fired THEN "appended" ELSE "ignored"
                      ELSE firstSample
  /\ lastOp' = "loop"
  /\ prevCounter' = secondsCounter
  /\ torn' = NoTorn
  /\ UNCHANGED << variant, oorMode, pc, isReadOnly, counterAtInit, fullLoops,
                  powerOn, restarts, cutCooldown, dumped, codec >>

\* loop() in Normal mode, to its end.
LoopNormal(pin, secondElapsed, sensorElapsed) ==
  /\ pc = "run"
  /\ Mode(isReadOnly, eventAddress) = "Normal"
  /\ \E r \in {loopBody(variant, eventAddress, hasEvent, eventTime,
                          secondsCounter, timer, pin, secondElapsed,
                          sensorElapsed)} :
         /\ MayRun(r)
         /\ NormalPass(r)
  /\ UNCHANGED waited

\* Power is lost while loop() sleeps in delay().
PowerLossIdle ==
  /\ pc = "run"
  /\ restarts < MaxRestarts
  /\ lastWrites' = << >>
  /\ Reset
  /\ torn' = NoTorn
  /\ UNCHANGED << eeprom, records, persisted >>

\* Power is lost inside a Normal-mode pass, after k of its byte writes.
PowerLossInLoop(pin, secondElapsed, sensorElapsed, k) ==
  /\ pc = "run"
  /\ restarts < MaxRestarts
  /\ Mode(isReadOnly, eventAddress) = "Normal"
  /\ LET r == loopBody(variant, eventAddress, hasEvent, eventTime,
                       secondsCounter, timer, pin, secondElapsed, sensorElapsed)
     IN  /\ MayRun(r)
         /\ k \in 1 .. Len(r.writes) - 1
         /\ eeprom' = ApplyWrites(oorMode, eeprom, SubSeqFirst(r.writes, k))
         /\ lastWrites' = Addresses(SubSeqFirst(r.writes, k))
         /\ records' = IF r.fired /\ k >= r.appendAt + 8
                         THEN Append(records, << r.eventAddress, r.stamp >>)
                         ELSE records
         /\ persisted' = IF r.ticked /\ k >= r.tickAt + 4
                           THEN persisted \cup {r.secondsCounter}
                           ELSE persisted
         /\ torn' = IF r.fired /\ k = r.appendAt + 4
                      THEN [old |-> eventAddress, new |-> r.eventAddress,
                            val |-> r.stamp]
                      ELSE NoTorn
  /\ Reset

Next ==
  \/ \E switchHigh \in BOOLEAN : Setup(switchHigh)
  \/ \E k \in 1 .. 7 : PowerLossInSetup(k)
  \/ LoopReadOnly
  \/ LoopMemoryFull
  \/ \E pin \in {"HIGH", "LOW"}, se \in Elapsed, ee \in Elapsed :
       LoopNormal(pin, se, ee)
  \/ PowerLossIdle
  \/ \E pin \in {"HIGH", "LOW"}, se \in Elapsed, ee \in Elapsed, k \in 1 .. 11 :
       PowerLossInLoop(pin, se, ee, k)

Spec == Init /\ [][Next]_vars

(* ------------------------ the codec on its own ------------------------ *)

\* Values passed to writeLong: the ends of the int32 range, 0, -1, and
\* values whose four bytes differ.
CodecValues ==
  {INT32_MIN, INT32_MAX, 0, -1, 1, 255, 256, -256, 65536, 16909060, -19088744}

\* The slot addresses inside the EEPROM.
CodecAddresses == {a \in 0 .. memorySize - 4 : a % 4 = 0}

machineVars == << variant, oorMode, pc, secondsCounter, timer, eventAddress,
                  isReadOnly, hasEvent, eventTime, lastOp, ticked, appended,
                  tickReadback, counterAtInit, ticksInRun, fullLoops, lastGap,
                  sincePulse, records, prevCounter, persisted, torn, powerOn,
                  restarts, timerCalls, firstSample, cutCooldown, dumped,
                  waited >>

\* writeLong(a, v) on the current EEPROM contents.
WriteLong(a, v) ==
  /\ codec.writes < MaxWrites
  /\ eeprom' = ApplyWrites(oorMode, eeprom, writeLong(a, v))
  /\ lastWrites' = Addresses(writeLong(a, v))
  /\ codec' = [op |-> "write", address |-> a, number |-> v, result |-> 0,
               writes |-> codec.writes + 1]
  /\ UNCHANGED machineVars

\* readLong of the address written last.
ReadLong ==
  /\ codec.op = "write"
  /\ codec' = [codec EXCEPT !.op = "read",
                            !.result = readLong(oorMode, eeprom, codec.address)]
  /\ UNCHANGED << eeprom, lastWrites >>
  /\ UNCHANGED machineVars

CodecNext ==
  \/ \E a \in CodecAddresses, v \in CodecValues : WriteLong(a, v)
  \/ ReadLong

CodecSpec == Init /\ [][CodecNext]_vars

(* ------------------------ the read-only dump -------------------------- *)

\* Values the slots of the dumped EEPROM hold.
DumpValues == {0, -1, 8}

\* The EEPROM of DumpSlots slots whose slot i holds f[i].
SlotBytes(f) ==
  [a \in 0 .. 4 * DumpSlots - 1 |-> writeLong(0, f[a \div 4])[(a % 4) + 1][2]]

\* Power-on with any of these contents.
DumpInit ==
  /\ eeprom \in {SlotBytes(f) : f \in [0 .. DumpSlots - 1 -> DumpValues]}
  /\ PowerOnGlobals

\* A run with the read-only switch closed.
DumpNext ==
  \/ Setup(TRUE)
  \/ LoopReadOnly

DumpSpec == DumpInit /\ [][DumpNext]_vars

(* ------------------------ one run, with fairness --------------------- *)

\* A Normal-mode pass of a run in which trains keep coming: the latch is
\* found clear without an event on at most MaxIdle passes in a row.  Time is
\* not cut at MaxSeconds here.
LivePass(pin, secondElapsed, sensorElapsed) ==
  /\ pc = "run"
  /\ Mode(isReadOnly, eventAddress) = "Normal"
  /\ \E r \in {loopBody(variant, eventAddress, hasEvent, eventTime,
                          secondsCounter, timer, pin, secondElapsed,
                          sensorElapsed)} :
         /\ NormalPass(r)
         /\ waited' = IF r.fired THEN 0
                      ELSE IF hasEvent THEN waited
                      ELSE waited + 1
         /\ waited' <= MaxIdle

\* A pass in which time moves on: any pass of the tick loop, a pass that
\* takes the one-second branch in the millis() build.
TimePasses ==
  \E pin \in {"HIGH", "LOW"}, ee \in Elapsed :
    LivePass(pin, variant = "digi", ee)

LiveNext ==
  \/ Setup(FALSE)
  \/ \E pin \in {"HIGH", "LOW"}, se \in Elapsed, ee \in Elapsed :
       LivePass(pin, se, ee)
  \/ LoopMemoryFull

\* loop() is called again and again and millis() advances.
LiveSpec ==
  /\ Init
  /\ [][LiveNext]_vars
  /\ WF_vars(Setup(FALSE))
  /\ WF_vars(TimePasses)

(* ------------------------ from cleared storage ------------------------ *)

\* Power-on of a board whose EEPROM clearMemory() has filled with 0x00.
FreshInit ==
  /\ eeprom = Erased(0)
  /\ PowerOnGlobals

FreshSpec == FreshInit /\ [][Next]_vars

(* ------------------------------ claims -------------------------------- *)

\* a + n in a 32-bit register, for a small n >= 0.
Add32(a, n) ==
  IF a > INT32_MAX - n THEN INT32_MIN + (n - 1 - (INT32_MAX - a)) ELSE a + n

\* The slot at address a lies inside the EEPROM (what the memory dump reads).
SlotInside(a) == a >= 0 /\ a + 3 < memorySize

\* The slot at address a lies inside the record region.
InRecordRegion(a) == a >= initialEventAddress /\ SlotInside(a)

\* Position of the first write to address a in the list ws (0: none).
FirstWrite(ws, a) ==
  IF \E i \in 1 .. Len(ws) : ws[i] = a
    THEN CHOOSE i \in 1 .. Len(ws) : ws[i] = a /\ \A j \in 1 .. i - 1 : ws[j] # a
    ELSE 0

Stored(a) == readLong(oorMode, eeprom, a)

\* C1: in Normal mode the counter after N ticks of a run is its value after
\* setup() plus N (in the counter's 32-bit arithmetic), and right after every
\* tick the four bytes at offset 0 decode to the in-memory counter.
C1_TickCountsAndPersists ==
  pc = "run" =>
    /\ secondsCounter = Add32(counterAtInit, ticksInRun)
    /\ ticked => tickReadback = secondsCounter

\* C1 witness: a run that has ticked twice, the last pass being a tick.
C1_Witness == pc = "run" /\ ticked /\ ticksInRun = 2

\* C2: within one run, two event pulses are at least eventsDelay debounce
\* ticks apart, so no window of eventsDelay consecutive debounce ticks holds
\* two pulses.
C2_OnePulsePerWindow == lastGap >= eventsDelay

\* C2 witness: a second pulse of a run, fired on the first tick the latch
\* allowed it.
C2_Witness == appended /\ lastGap = eventsDelay + 1

\* C3 (as claimed): in the first run from an empty log, after K appends the
\* in-memory and the persisted pointer are eventIndexAddress + 4*K and the
\* slots eventIndexAddress+4 .. eventIndexAddress+4*K read back the K
\* appended timestamps in order.
C3_AppendsReadBack ==
  (pc = "run" /\ restarts = 0 /\ records # << >>) =>
    LET K == Len(records)
    IN  /\ eventAddress = eventIndexAddress + eventAddressStep * K
        /\ Stored(eventIndexAddress) = eventIndexAddress + eventAddressStep * K
        /\ \A i \in 1 .. K :
             /\ SlotInside(eventIndexAddress + eventAddressStep * i)
             /\ Stored(eventIndexAddress + eventAddressStep * i) = records[i][2]

\* C4: once eventAddress > memorySize, every later step of the run leaves it
\* so and changes neither the EEPROM, nor the pointer, nor the counter.
C4_FullIsFinal ==
  [][ (pc = "run" /\ eventAddress > memorySize /\ pc' = "run") =>
        /\ eventAddress' > memorySize
        /\ eeprom' = eeprom
        /\ eventAddress' = eventAddress
        /\ secondsCounter' = secondsCounter ]_vars

\* C4 witness: loop() ran twice with the memory full.
C4_Witness == pc = "run" /\ fullLoops = 2 /\ eventAddress > memorySize

\* C5 (as claimed): every byte address written by a pass that appends lies
\* inside the EEPROM.
C5_AppendWritesInRange ==
  appended => \A i \in 1 .. Len(lastWrites) : InRange(lastWrites[i])

\* C6 (as claimed): an append writes the index before the payload, and a
\* power loss between the two writeLong calls recovers the advanced pointer.
C6_PointerBeforePayload ==
  /\ appended =>
       FirstWrite(lastWrites, eventIndexAddress) < FirstWrite(lastWrites, eventAddress)
  /\ (lastOp = "setup" /\ torn # NoTorn) => eventAddress = torn.new

\* C6 (amended): an append writes the four payload bytes at the new slot
\* before the four index bytes, and after a power loss between the two
\* writeLong calls of an append whose slot lies in the record region,
\* setup() recovers the pointer as it was before the append while the slot
\* already holds the payload.
C6_PayloadBeforePointer ==
  /\ appended =>
       LET p == FirstWrite(lastWrites, eventAddress)
       IN  /\ p > 0
           /\ p + 7 <= Len(lastWrites)
           /\ \A i \in 0 .. 3 :
                /\ lastWrites[p + i] = eventAddress + i
                /\ lastWrites[p + 4 + i] = eventIndexAddress + i
  /\ (lastOp = "setup" /\ torn # NoTorn /\ InRecordRegion(torn.new)) =>
       /\ eventAddress = torn.old
       /\ Stored(torn.new) = torn.val

\* C6 witness: setup() after a power loss that fell between the payload and
\* the index write of the second append.
C6_Witness ==
  /\ lastOp = "setup"
  /\ torn # NoTorn
  /\ torn.old = initialEventAddress
  /\ InRecordRegion(torn.new)
  /\ eventAddress = initialEventAddress

\* C7 (as claimed): while running, the pointer is the index address or
\* addresses a slot inside the EEPROM that holds the timestamp of a
\* completed append.
C7_PointerAtValidRecord ==
  pc = "run" =>
    \/ eventAddress = eventIndexAddress
    \/ /\ SlotInside(eventAddress)
       /\ \E i \in 1 .. Len(records) :
            /\ records[i][1] = eventAddress
            /\ Stored(eventAddress) = records[i][2]

\* C8 (as claimed): when the index bytes decode to a value <= 0 at power-on,
\* setup() leaves eventAddress = eventIndexAddress and the same value
\* persisted at the index offset.
C8_PointerHealedAndPersisted ==
  (lastOp = "setup" /\ readLong(oorMode, powerOn, eventIndexAddress) <= 0) =>
    /\ eventAddress = eventIndexAddress
    /\ Stored(eventIndexAddress) = eventAddress

\* C9 (as claimed): when the counter bytes decode to an int32 <= 0 at
\* power-on, setup() leaves secondsCounter = 0 and 0 persisted at offset 0.
C9_CounterHealedAndPersisted ==
  (lastOp = "setup" /\ readLong(oorMode, powerOn, secondsCounterAddress) <= 0) =>
    /\ secondsCounter = 0
    /\ Stored(secondsCounterAddress) = 0

\* C10 (as claimed): within a run the counter never decreases, and the
\* counter setup() recovers is at least every value persisted before.
C10_CounterNeverDecreases ==
  /\ lastOp \in {"loop", "full", "readonly"} =>
       ~CounterLess(variant, secondsCounter, prevCounter)
  /\ lastOp = "setup" =>
       \A p \in persisted : ~CounterLess(variant, secondsCounter, p)

\* C11 (as claimed): in a run whose read-only switch was closed at startup
\* no operation, setup() included, issues an EEPROM write, and the EEPROM
\* holds what it held at power-on.
C11_ReadOnlyWritesNothing ==
  (pc = "run" /\ isReadOnly) =>
    /\ lastWrites = << >>
    /\ eeprom = powerOn

\* C12: the mode of a run is a latch.  Only setup() (and the reset that
\* precedes it) changes isReadOnly, no loop() pass does; a pass that starts
\* in ReadOnly or MemoryFull mode is not a Normal-mode pass and ends in
\* ReadOnly or MemoryFull mode, whatever the inputs.
C12_ModeIsLatched ==
  [][ /\ isReadOnly' # isReadOnly => lastOp' \in {"setup", "powerloss"}
      /\ (pc = "run" /\ pc' = "run" /\ (isReadOnly \/ eventAddress > memorySize)) =>
           /\ lastOp' \in {"readonly", "full"}
           /\ ~appended' /\ ~ticked'
           /\ (isReadOnly' \/ eventAddress' > memorySize) ]_vars

\* C12 witness: a read-only run whose loop() has returned early at least
\* once, on a board whose memory is not full.
C12_Witness ==
  pc = "run" /\ isReadOnly /\ lastOp = "readonly" /\ eventAddress <= memorySize

\* C13 (as claimed): the slot of every completed append that lies inside
\* the EEPROM still reads the timestamp that append wrote, after any later
\* tick, append or restart.
C13_RecordsImmutable ==
  \A i \in 1 .. Len(records) :
    SlotInside(records[i][1]) => Stored(records[i][1]) = records[i][2]

\* C14: codec round trip.  readLong(a) after writeLong(a, v) returns v, for
\* every value v written, the ends of the int32 range, 0 and -1 included.
C14_CodecRoundTrip ==
  codec.op = "read" => codec.result = codec.number

\* C14 witness: INT32_MIN has been written and read back.
C14_Witness ==
  codec.op = "read" /\ codec.number = INT32_MIN /\ codec.result < 0

\* The value of the big-endian digits b0 b1 b2 b3 (each in 0 .. 255) as a
\* two's-complement int32.
BigEndian(b0, b1, b2, b3) ==
  (IF b0 >= 128 THEN b0 - 256 ELSE b0) * 16777216 + b1 * 65536 + b2 * 256 + b3

\* C18: after writeLong(a, v) the bytes at a, a+1, a+2, a+3 are the four
\* base-256 digits of v from the most significant (bits 31..24) to the
\* least significant (bits 7..0), and readLong(a) is the value of the same
\* four bytes taken in that order.
C18_MostSignificantFirst ==
  codec.op # "none" =>
    LET a == codec.address
    IN  /\ \A i \in 0 .. 3 : eeprom[a + i] \in 0 .. 255
        /\ BigEndian(eeprom[a], eeprom[a + 1], eeprom[a + 2], eeprom[a + 3])
             = codec.number
        /\ codec.op = "read" =>
             codec.result
               = BigEndian(eeprom[a], eeprom[a + 1], eeprom[a + 2], eeprom[a + 3])

\* C18 witness: 0x01020304 has been written and read, its bytes are 1, 2, 3, 4
\* from the lowest address up.
C18_Witness ==
  /\ codec.op = "read"
  /\ codec.number = 16909060
  /\ eeprom[codec.address] = 1
  /\ eeprom[codec.address + 3] = 4

\* The debounce count with which the pass that emits a pulse ends in build
\* v: handleSensor() of traindetector.ino runs the debounce block in the
\* call that set the latch, part_000 runs it in the one-second branch.
CountAfterPulse(v) == IF v = "ino" THEN 1 ELSE 0

\* Debounce ticks that have ended after the tick of the last pulse (that
\* tick is a debounce tick itself in traindetector.ino).
TicksAfterPulse == IF variant = "ino" THEN sincePulse - 1 ELSE sincePulse

\* C15 (as claimed): the pass that emits a pulse ends with the latch set and
\* the count 0, and after a pulse at tick t the latch is still set at the
\* end of the ticks t .. t + eventsDelay.
C15_PulseEndsAtZero ==
  pc = "run" =>
    /\ appended => (hasEvent /\ eventTime = 0)
    /\ TicksAfterPulse <= eventsDelay => hasEvent

\* C15 (amended): the pass that emits a pulse ends with the latch set and
\* the count 1 in traindetector.ino (0 in part_000); every later debounce
\* tick adds one to the count whatever the sensor reads, the latch stays set
\* while the count is at most eventsDelay and is released on the tick that
\* takes the count to eventsDelay + 1.
C15_DebounceCounts ==
  pc = "run" =>
    /\ appended => (hasEvent /\ eventTime = CountAfterPulse(variant))
    /\ hasEvent => (eventTime = sincePulse /\ eventTime <= eventsDelay)
    /\ (~hasEvent /\ sincePulse <= eventsDelay + 1) =>
         (sincePulse = eventsDelay + 1 /\ eventTime = eventsDelay + 1)

\* C15 witness: the tick that released the latch in traindetector.ino, the
\* count having gone from 1 to eventsDelay + 1.
C15_Witness ==
  /\ pc = "run"
  /\ variant = "ino"
  /\ ~hasEvent
  /\ sincePulse = eventsDelay + 1
  /\ eventTime = eventsDelay + 1

\* The 4-byte-aligned slot addresses of the EEPROM, in order.
SlotCount == (EEPROMlength(eeprom) + 3) \div 4

\* Among the first j slots, those that read 0 minus those that do not.
ZeroBalance(j) ==
  Cardinality({i \in 1 .. j : Stored(4 * (i - 1)) = 0})
    - Cardinality({i \in 1 .. j : Stored(4 * (i - 1)) # 0})

\* What setup() leaves when nothing but its two recoveries touches the state.
AsSetupLeftIt ==
  LET r == setup(variant, oorMode, powerOn)
  IN  /\ eeprom = ApplyWrites(oorMode, powerOn, r.writes)
      /\ secondsCounter = r.secondsCounter
      /\ eventAddress = r.eventAddress
      /\ ~hasEvent
      /\ eventTime = 0

\* C16 (as claimed): the dump of a read-only start visits every slot, from
\* address 0 to the end of the EEPROM, whatever the EEPROM holds, and
\* changes neither the EEPROM nor the counter, the pointer or the latch.
C16_DumpVisitsEverySlot ==
  (pc = "run" /\ isReadOnly /\ serialEnabled(variant)) =>
    /\ Len(dumped) = SlotCount
    /\ \A i \in 1 .. Len(dumped) :
         dumped[i] = << 4 * (i - 1), Stored(4 * (i - 1)) >>
    /\ AsSetupLeftIt

\* C16 (amended): the dump visits the slots in address order from 0 and
\* prints what each holds; it goes on while the slots that read 0 outnumber
\* the others by at most 4 and stops after the first slot where they
\* outnumber them by more, so it reaches the end of the EEPROM only when
\* that never happens; it changes neither the EEPROM nor the counter, the
\* pointer or the latch.
C16_DumpStopsOnZeros ==
  (pc = "run" /\ isReadOnly /\ serialEnabled(variant)) =>
    /\ Len(dumped) \in 1 .. SlotCount
    /\ \A i \in 1 .. Len(dumped) :
         dumped[i] = << 4 * (i - 1), Stored(4 * (i - 1)) >>
    /\ \A j \in 1 .. Len(dumped) - 1 : ZeroBalance(j) <= 4
    /\ Len(dumped) < SlotCount => ZeroBalance(Len(dumped)) > 4
    /\ AsSetupLeftIt

\* C16 witness: a dump that was cut short, and one loop() pass after it.
C16_Witness ==
  /\ pc = "run"
  /\ isReadOnly
  /\ lastOp = "readonly"
  /\ dumped # << >>
  /\ Len(dumped) < SlotCount

\* C17 (as claimed): a Normal-mode pass changes an EEPROM byte only if it
\* ticked and the byte is one of 0..3, or it appended and the byte is one of
\* 4..7 or of the new slot; without a tick the in-memory counter keeps its
\* value, without an append the in-memory pointer keeps its value.
C17_WritersFrame ==
  [][ lastOp' = "loop" =>
        /\ \A a \in DOMAIN eeprom :
             eeprom'[a] # eeprom[a] =>
               \/ ticked' /\ a \in secondsCounterAddress .. secondsCounterAddress + 3
               \/ appended' /\ a \in eventIndexAddress .. eventIndexAddress + 3
               \/ appended' /\ a \in eventAddress' .. eventAddress' + 3
        /\ ~ticked' => secondsCounter' = secondsCounter
        /\ ~appended' => eventAddress' = eventAddress ]_vars

\* C19: in the build that has the loop-tick accumulator, `timer` is in
\* 0 .. counterIncreaseRatio - 1 at the end of every pass, and after N
\* Normal-mode passes since setup() it is N modulo counterIncreaseRatio and
\* secondsCounter is its value after setup() plus N \div counterIncreaseRatio.
C19_TimerAccumulates ==
  (pc = "run" /\ variant = "ino") =>
    /\ timer \in 0 .. counterIncreaseRatio - 1
    /\ timer = timerCalls % counterIncreaseRatio
    /\ secondsCounter = Add32(counterAtInit, timerCalls \div counterIncreaseRatio)
    /\ ticksInRun = timerCalls \div counterIncreaseRatio

\* C19 witness: three passes have made one second, the third pass being the
\* first tick towards the next one.
C19_Witness ==
  /\ pc = "run"
  /\ variant = "ino"
  /\ timerCalls = counterIncreaseRatio + 1
  /\ timer = 1
  /\ ticksInRun = 1

\* C20: after every reset the latch is clear and the count 0 when setup()
\* returns, and the first triggered sensor sample of a run appends an
\* event, also when power was lost while the latch was set.
C20_DebounceNotPersisted ==
  /\ lastOp \in {"powerloss", "setup"} => (~hasEvent /\ eventTime = 0)
  /\ firstSample # "ignored"

\* C20 witness: power was lost while the latch was set, and the first
\* triggered sample of the next run has just appended an event.
C20_Witness ==
  /\ restarts > 0
  /\ cutCooldown
  /\ lastOp = "loop"
  /\ appended
  /\ firstSample = "appended"
  /\ lastGap = GapCap

\* The record slot addresses from eventIndexAddress + 4 up to hi.
RecordSlots(hi) ==
  {a \in initialEventAddress .. hi :
     (a - initialEventAddress) % eventAddressStep = 0}

\* C21 (as claimed): from an EEPROM cleared to 0x00, after any ticks, appends
\* and restarts, the timestamps read from the record slots between
\* eventIndexAddress + 4 and the persisted pointer do not decrease with the
\* address.
C21_TimestampsOrdered ==
  \A a, b \in RecordSlots(Stored(eventIndexAddress)) :
    a < b => ~CounterLess(variant, Stored(b), Stored(a))

InNormalMode == pc = "run" /\ Mode(isReadOnly, eventAddress) = "Normal"

\* The values eventAddress takes after an event.
Pointers ==
  {a \in eventIndexAddress + 1 .. memorySize + eventAddressStep :
     a % eventAddressStep = 0}

\* The latch set at pointer a is released: it is found clear after a pass,
\* or it was cleared and taken again by the next event within one pass.
Rearmed(a) == ~hasEvent \/ (appended /\ eventAddress > a)

\* C22 as stated: in a run that keeps looping while trains keep coming, the
\* latch is released after every event, a clear latch is followed by the
\* append of one more event, and the run reaches MemoryFull mode.
C22_RearmsAfterEachEvent ==
  /\ \A a \in Pointers :
       (pc = "run" /\ hasEvent /\ eventAddress = a) ~> Rearmed(a)
  /\ (InNormalMode /\ ~hasEvent) ~> appended
  /\ <>(pc = "run" /\ Mode(isReadOnly, eventAddress) = "MemoryFull")

\* C22, amended: in a run that keeps looping while trains keep coming, the
\* latch is released after every event that leaves the run in Normal mode,
\* a clear latch is followed by the append of one more event, and the run
\* reaches MemoryFull mode.
C22_ReachesMemoryFull ==
  /\ \A a \in Pointers :
       (InNormalMode /\ hasEvent /\ eventAddress = a) ~> Rearmed(a)
  /\ (InNormalMode /\ ~hasEvent) ~> appended
  /\ <>(pc = "run" /\ Mode(isReadOnly, eventAddress) = "MemoryFull")

\* C22 witness: loop() returns early with the memory full, in the run that
\* started from the erased EEPROM and appended every event itself.
C22_Witness ==
  /\ pc = "run"
  /\ lastOp = "full"
  /\ restarts = 0
  /\ Len(records) >= 2
  /\ eventAddress = eventIndexAddress + eventAddressStep * Len(records)

====
